---- MODULE Spec2Model ----
(***************************************************************************)
(* A model of the "little planet" projection of FlapyPan/OTTO:             *)
(*   - the raster worker        (src/unnamed/part_000, projection-worker)  *)
(*   - the WebGL page           (src/script.js, lines 1-663)               *)
(*   - the worker-based 2D page (src/script.js, lines 665-897)             *)
(*                                                                         *)
(* Numbers.  JavaScript numbers are modelled as exact rationals <<n, d>>   *)
(* in lowest terms with d >= 0; <<0, 0>> is NaN and <<1, 0>>, <<-1, 0>>    *)
(* are the infinities.  Rotation angles are multiples of 90 degrees, so    *)
(* that every sine and cosine is -1, 0 or 1.  Scales and offsets are       *)
(* multiples of 1/2.                                                       *)
(***************************************************************************)
EXTENDS Integers, Sequences, FiniteSets, TLC

----------------------------------------------------------------------------
(* Bounds of the model *)

\* largest output height / width of a request whose bands are followed
MaxH == 20
MaxW == 1
\* largest output height and width of a request whose pixels are followed
MaxPix == 2
\* files the user can pick, positions of the range inputs beyond the first,
\* console.error lines counted
MaxFiles == 1
MaxCtl == 1
MaxErrors == 2
\* the canvas of the worker-based page, outputWidth x outputHeight = 800 x 600
\* in lines 674-675, is OutW x OutH pixels in the model
OutW == 2
OutH == 2

\* largest absolute value of a coordinate of a point, and largest radius, in
\* an evaluation of the projection math
MaxCoord == 2
MaxR == 3

\* frameInterval, line 672, as the unit of time
FrameInterval == 1

----------------------------------------------------------------------------
(* Rational arithmetic with NaN and infinities (IEEE special values) *)

Abs(a) == IF a < 0 THEN 0 - a ELSE a
Sgn(a) == IF a < 0 THEN 0 - 1 ELSE IF a > 0 THEN 1 ELSE 0

RECURSIVE Gcd(_, _)
Gcd(a, b) == IF b = 0 THEN a ELSE Gcd(b, a % b)

NaN == <<0, 0>>
IsNaN(a) == a[1] = 0 /\ a[2] = 0
IsFinite(a) == a[2] > 0

Norm(n, d) ==
    IF d = 0 THEN <<Sgn(n), 0>>
    ELSE LET g == Gcd(Abs(n), Abs(d))
         IN  IF d < 0 THEN <<(0 - n) \div g, (0 - d) \div g>>
                      ELSE <<n \div g, d \div g>>

Num(i) == <<i, 1>>
Half == <<1, 2>>

RAdd(a, b) ==
    IF IsNaN(a) \/ IsNaN(b) THEN NaN
    ELSE IF a[2] = 0 /\ b[2] = 0 THEN (IF a[1] = b[1] THEN a ELSE NaN)
    ELSE Norm(a[1] * b[2] + b[1] * a[2], a[2] * b[2])

RNeg(a) == <<0 - a[1], a[2]>>
RSub(a, b) == RAdd(a, RNeg(b))
RMul(a, b) == Norm(a[1] * b[1], a[2] * b[2])
\* a / b; x / 0 is an infinity for x # 0 and NaN for x = 0
RDiv(a, b) ==
    IF IsNaN(a) \/ IsNaN(b) THEN NaN
    ELSE Norm(a[1] * b[2] * (IF b[1] < 0 THEN 0 - 1 ELSE 1), a[2] * Abs(b[1]))

\* comparisons are false when an operand is NaN, as in JavaScript
RLess(a, b) == ~IsNaN(a) /\ ~IsNaN(b) /\ a # b /\
               (IF a[2] = 0 THEN a[1] < 0
                ELSE IF b[2] = 0 THEN b[1] > 0
                ELSE a[1] * b[2] < b[1] * a[2])
RLeq(a, b) == ~IsNaN(a) /\ ~IsNaN(b) /\ (a = b \/ RLess(a, b))
RMin(a, b) == IF IsNaN(a) \/ IsNaN(b) THEN NaN ELSE IF RLess(b, a) THEN b ELSE a

----------------------------------------------------------------------------
(* Projection math of the raster worker (src/unnamed/part_000) *)

\* Math.cos and Math.sin at q quarter turns (q * 90 degrees)
Cos4(q) == CASE q % 4 = 0 -> 1 [] q % 4 = 1 -> 0 [] q % 4 = 2 -> 0 - 1 [] OTHER -> 0
Sin4(q) == CASE q % 4 = 0 -> 0 [] q % 4 = 1 -> 1 [] q % 4 = 2 -> 0 [] OTHER -> 0 - 1

\* const rot_mat = [...], lines 7-23; alpha, beta, gamma in quarter turns
rot_mat_TermLost(alpha, beta, gamma) ==
    << << Cos4(gamma) * Cos4(beta),
          Cos4(gamma) * Sin4(beta) * Sin4(alpha),
          Cos4(gamma) * Sin4(beta) * Cos4(alpha) + Sin4(gamma) * Sin4(alpha) >>,
       << Sin4(gamma) * Cos4(beta),
          Sin4(gamma) * Sin4(beta) * Sin4(alpha) + Cos4(gamma) * Cos4(alpha),
          Sin4(gamma) * Sin4(beta) * Cos4(alpha) - Cos4(gamma) * Sin4(alpha) >>,
       << 0 - Sin4(beta),
          Cos4(beta) * Sin4(alpha),
          Cos4(beta) * Cos4(alpha) >> >>
rot_mat(alpha, beta, gamma) ==
    << << Cos4(gamma) * Cos4(beta),
          Cos4(gamma) * Sin4(beta) * Sin4(alpha) - Sin4(gamma) * Cos4(alpha),
          Cos4(gamma) * Sin4(beta) * Cos4(alpha) + Sin4(gamma) * Sin4(alpha) >>,
       << Sin4(gamma) * Cos4(beta),
          Sin4(gamma) * Sin4(beta) * Sin4(alpha) + Cos4(gamma) * Cos4(alpha),
          Sin4(gamma) * Sin4(beta) * Cos4(alpha) - Cos4(gamma) * Sin4(alpha) >>,
       << 0 - Sin4(beta),
          Cos4(beta) * Sin4(alpha),
          Cos4(beta) * Cos4(alpha) >> >>

\* x**2 + y**2 + r**2, the divisor in line 68
Denominator_Minus(point, r) ==
    RSub(RAdd(RMul(point[1], point[1]), RMul(point[2], point[2])), RMul(r, r))
Denominator(point, r) ==
    RAdd(RAdd(RMul(point[1], point[1]), RMul(point[2], point[2])), RMul(r, r))

\* getPointOnSphere(point, r), lines 66-70: k = 2 r^2 / (x^2 + y^2 + r^2)
getPointOnSphere(point, r) ==
    LET x == point[1]
        y == point[2]
        k == RDiv(RMul(Num(2), RMul(r, r)), Denominator(point, r))
    IN  << RMul(k, x), RMul(k, y), RMul(RSub(k, Num(1)), r) >>

\* axisRotate(point, rot_mat): rot_mat . point, rot_mat read row-major
axisRotate(point, m) ==
    [ i \in 1..3 |->
        RAdd(RAdd(RMul(Num(m[i][1]), point[1]), RMul(Num(m[i][2]), point[2])),
             RMul(Num(m[i][3]), point[3])) ]

\* cos((2n - 1) pi / (2h)), the n-th rounding boundary of acos(t) / pi * h,
\* as sign * sqrt(p / q), given as <<sign, p, q>>; exact for h in 1..3
AcosBoundary(n, h) ==
    CASE h = 1 -> <<1, 0, 1>>
      [] h = 2 -> IF n = 1 THEN <<1, 1, 2>> ELSE <<0 - 1, 1, 2>>
      [] h = 3 -> IF n = 1 THEN <<1, 3, 4>>
                  ELSE IF n = 2 THEN <<1, 0, 1>> ELSE <<0 - 1, 3, 4>>

\* t <= sign * sqrt(p / q), t a finite rational
LeqSqrt(t, c) ==
    IF c[1] > 0 THEN t[1] <= 0 \/ t[1] * t[1] * c[3] <= c[2] * t[2] * t[2]
                ELSE t[1] < 0 /\ t[1] * t[1] * c[3] >= c[2] * t[2] * t[2]

\* Math.round(Math.acos(t) / Math.PI * h): the number of n in 1..h with
\* acos(t) / pi * h >= n - 1/2 (Math.round rounds a half up).  Math.acos is NaN
\* outside [-1, 1].  rnd is the side on which the double holding t lies of
\* the exact value t (-1 below, 0 on it, 1 above); it decides the domain test
\* when the exact value is an end of [-1, 1].
RoundAcos(t, rnd, h) ==
    IF IsNaN(t) \/ RLess(t, Num(0 - 1)) \/ (t = Num(0 - 1) /\ rnd < 0)
       \/ RLess(Num(1), t) \/ (t = Num(1) /\ rnd > 0)
    THEN NaN
    ELSE Num(Cardinality({ n \in 1..h : LeqSqrt(t, AcosBoundary(n, h)) }))

\* The position of Math.atan2(y, x) among the multiples of pi/4:
\* 2j when atan2 = j pi/4, 2j + 1 when j pi/4 < atan2 < (j+1) pi/4.
\* Math.atan2(0, 0) = 0.
Atan2Eighth(y, x) ==
    LET sy == Sgn(y[1])
        sx == Sgn(x[1])
        ay == <<Abs(y[1]), y[2]>>
        ax == <<Abs(x[1]), x[2]>>
        \* the angle of (|x|, |y|) in [0, pi/2], in the same encoding
        q  == IF sy = 0 THEN 0
              ELSE IF sx = 0 THEN 4
              ELSE IF RLess(ay, ax) THEN 1
              ELSE IF ay = ax THEN 2 ELSE 3
    IN  IF sx >= 0 /\ sy >= 0 THEN q
        ELSE IF sx < 0 /\ sy >= 0 THEN 8 - q
        ELSE IF sx < 0 /\ sy < 0 THEN q - 8
        ELSE 0 - q

\* Math.round((Math.atan2(y, x) / (2 pi) + 0.5) * w), exact for w in {1, 2, 4}:
\* the number of n in 1..w with atan2 >= (2n - 1 - w) pi / w
RoundAtan2(y, x, w) ==
    IF IsNaN(x) \/ IsNaN(y) THEN NaN
    ELSE Num(Cardinality({ n \in 1..w :
             Atan2Eighth(y, x) * w >= 8 * (2 * n - 1 - w) }))

\* a % b of JavaScript for a >= 0: NaN when b = 0 or an operand is NaN
RMod(a, b) ==
    IF IsNaN(a) \/ b = 0 THEN NaN ELSE Num(a[1] % b)

\* getPixOnImg(point, r, h_img, w_img), lines 80-89
getPixOnImg(point, rnd, r, h_img, w_img) ==
    LET x == point[1]
        y == point[2]
        over == RLess(r, point[3]) \/ (point[3] = r /\ rnd > 0)
        z == IF over THEN r ELSE point[3]
        e == IF over THEN 0 ELSE rnd
    IN  << RMod(RoundAcos(RDiv(z, r), e, h_img), h_img),
           RMod(RoundAtan2(y, x, w_img), w_img) >>

\* Q = [x, y, z] of projection, lines 56-60
Q(pix_proj, h_proj, w_proj, offset_hor, offset_ver) ==
    LET x == RAdd(Num(pix_proj[1]), RMul(RSub(offset_ver, Half), Num(h_proj)))
        y == RAdd(Num(pix_proj[2]), RMul(RSub(offset_hor, Half), Num(w_proj)))
    IN  <<x, y, Num(0)>>

\* projection(pix_proj, r, h_img, w_img, h_proj, w_proj, offset_hor,
\* offset_ver, rot_mat), lines 55-64
projection(pix_proj, rnd, r, h_img, w_img, h_proj, w_proj, offset_hor, offset_ver, m) ==
    getPixOnImg(axisRotate(getPointOnSphere(
                    Q(pix_proj, h_proj, w_proj, offset_hor, offset_ver), r), m),
                rnd, r, h_img, w_img)

\* Math.round(a): the integer nearest to a, a half rounded up
RRound(a) ==
    IF ~IsFinite(a) THEN a ELSE Num((2 * a[1] + a[2]) \div (2 * a[2]))

\* Math.round(v * n) % n, lines 86 and 87, for a coordinate v; the remainder
\* has the sign of the dividend
Wrap(v, n) ==
    LET k == RRound(RMul(v, Num(n)))
    IN  IF ~IsFinite(k) \/ n = 0 THEN NaN
        ELSE IF k[1] >= 0 THEN Num(k[1] % n) ELSE Num(0 - ((0 - k[1]) % n))

----------------------------------------------------------------------------
(* The fragment shader fsSource (src/script.js, lines 14-100) *)

\* computeRotationMatrix(angles), lines 29-48.  The constructor mat3(...)
\* of GLSL takes its nine arguments column by column: the value is the
\* sequence of the three columns of the matrix.
computeRotationMatrix(alpha, beta, gamma) ==
    LET cosA == Cos4(alpha)  sinA == Sin4(alpha)
        cosB == Cos4(beta)   sinB == Sin4(beta)
        cosG == Cos4(gamma)  sinG == Sin4(gamma)
    IN  << << cosG * cosB,
              cosG * sinB * sinA - sinG * cosA,
              cosG * sinB * cosA + sinG * sinA >>,
           << sinG * cosB,
              sinG * sinB * sinA + cosG * cosA,
              sinG * sinB * cosA - cosG * sinA >>,
           << 0 - sinB,
              cosB * sinA,
              cosB * cosA >> >>

\* rotMat * spherePoint, line 90: a mat3 times a column vector; rotMat[j] is
\* the j-th column
rotatedPoint(rotMat, spherePoint) ==
    [ i \in 1..3 |->
        RAdd(RAdd(RMul(Num(rotMat[1][i]), spherePoint[1]),
                  RMul(Num(rotMat[2][i]), spherePoint[2])),
             RMul(Num(rotMat[3][i]), spherePoint[3])) ]

\* vTextureCoord * uResolution, line 87, at the centre of the pixel in row
\* `row` (from the top) and column `col`: the quad of initBuffers, lines
\* 188-199, has texture coordinate (0, 0) at the top left corner and (1, 1)
\* at the bottom right corner of the canvas
pixCoord(row, col) == << RAdd(Num(col), Half), RAdd(Num(row), Half) >>

\* adjusted and point of projectToSphere, lines 51 and 53
point(pixel, uOffset, uResolution) ==
    << RAdd(pixel[1], RMul(RSub(uOffset[1], Half), uResolution[1])),
       RAdd(pixel[2], RMul(RSub(uOffset[2], Half), uResolution[2])),
       Num(0) >>

\* dot(point.xy, point.xy) + r * r, the divisor in line 54
FragDenominator(pt, r) ==
    RAdd(RAdd(RMul(pt[1], pt[1]), RMul(pt[2], pt[2])), RMul(r, r))

\* projectToSphere(pixel), lines 50-56
projectToSphere(pixel, uOffset, uResolution, uScale) ==
    LET pt == point(pixel, uOffset, uResolution)
        r  == RMul(RDiv(RMin(uResolution[1], uResolution[2]), Num(10)), uScale)
        k  == RDiv(RMul(Num(2), RMul(r, r)), FragDenominator(pt, r))
    IN  << RMul(k, pt[1]), RMul(k, pt[2]), RMul(RSub(k, Num(1)), r) >>

\* clamp(x, lo, hi) of GLSL
clamp(x, lo, hi) == IF RLess(x, lo) THEN lo ELSE IF RLess(hi, x) THEN hi ELSE x

\* the cosines whose arc cosine is a rational part of a half turn
ExactCosines == { Num(0 - 1), Norm(0 - 1, 2), Num(0), Half, Num(1) }

\* acos(c) / PI of line 63, for c in ExactCosines
AcosOverPi(c) ==
    CASE c = Num(1) -> Num(0)
      [] c = Half -> Norm(1, 3)
      [] c = Num(0) -> Half
      [] c = Norm(0 - 1, 2) -> Norm(2, 3)
      [] c = Num(0 - 1) -> Num(1)

\* (x, y) lies on an axis or on a diagonal, or is (0, 0)
ExactDirection(x, y) ==
    x[1] = 0 \/ y[1] = 0 \/ x = y \/ x = RNeg(y)

\* what atan(0, 0) / TWO_PI can be: GLSL leaves atan(y, x) undefined when x
\* and y are both 0; implementations return 0, a quarter or a half turn, or
\* the NaN of y / x
AtanUndefined == { Num(0), Norm(1, 4), Half, NaN }

\* atan(y, x) / TWO_PI of line 64, for (x, y) in an exact direction
AtanOverTwoPi(y, x, undef) ==
    LET zero == Num(0)
    IN  CASE x = zero /\ y = zero -> undef
          [] RLess(zero, x) /\ y = zero -> zero
          [] RLess(zero, x) /\ y = x -> Norm(1, 8)
          [] x = zero /\ RLess(zero, y) -> Norm(1, 4)
          [] RLess(x, zero) /\ y = RNeg(x) -> Norm(3, 8)
          [] RLess(x, zero) /\ y = zero -> Half
          [] RLess(x, zero) /\ y = x -> Norm(0 - 3, 8)
          [] x = zero /\ RLess(y, zero) -> Norm(0 - 1, 4)
          [] RLess(zero, x) /\ y = RNeg(x) -> Norm(0 - 1, 8)

\* getPixOnImg(point) of the shader, lines 58-67: vec2(col, row)
FragGetPixOnImg(pt, r, undef) ==
    LET z   == clamp(pt[3], RNeg(r), r)
        row == AcosOverPi(RDiv(z, r))
        col == RAdd(AtanOverTwoPi(pt[2], pt[1], undef), Half)
    IN  << col, row >>

\* uRadius as render sets it, lines 268-271
uRadius(uResolution, uScale) ==
    RMul(RDiv(RMin(uResolution[2], uResolution[1]), Num(10)), uScale)

\* rotatedPoint of main, lines 87-90, for the fragment at (row, col)
FragRotatedPoint(in) ==
    rotatedPoint(computeRotationMatrix(in.uRotation[1], in.uRotation[2],
                                       in.uRotation[3]),
                 projectToSphere(pixCoord(in.row, in.col), in.uOffset,
                                 in.uResolution, in.uScale))

\* const int SAMPLES = 8, line 71
SAMPLES == 8

\* a vec4, componentwise
V4Add(a, b) == [ i \in 1..4 |-> RAdd(a[i], b[i]) ]
V4Div(a, n) == [ i \in 1..4 |-> RDiv(a[i], Num(n)) ]
V4Mix(a, b, f) ==
    [ i \in 1..4 |-> RAdd(RMul(RSub(Num(1), f), a[i]), RMul(f, b[i])) ]

\* texture2D(uSampler, coord), line 79, of a texture one texel high and one
\* or two texels wide, with the parameters of loadTexture, lines 228-231:
\* CLAMP_TO_EDGE and LINEAR.  The texel centres are at 1/4 and 3/4.
texture2D(tex, coord) ==
    IF Len(tex) = 1 \/ RLeq(coord[1], <<1, 4>>) THEN tex[1]
    ELSE IF RLeq(<<3, 4>>, coord[1]) THEN tex[2]
    ELSE V4Mix(tex[1], tex[2], RMul(Num(2), RSub(coord[1], <<1, 4>>)))

\* sampleCoord of lines 77-78 for the loop counters i and j
sampleCoord(coord, uResolution, i, j) ==
    LET offset == << RSub(RDiv(Num(i), Num(SAMPLES)), Half),
                     RSub(RDiv(Num(j), Num(SAMPLES)), Half) >>
    IN  << RAdd(coord[1], RDiv(offset[1], uResolution[1])),
           RAdd(coord[2], RDiv(offset[2], uResolution[2])) >>

\* the inner loop, lines 76-80: the sum of the samples j < n for one i
RECURSIVE InnerLoop(_, _, _, _, _)
InnerLoop(coord, tex, uResolution, i, n) ==
    IF n = 0 THEN << Num(0), Num(0), Num(0), Num(0) >>
    ELSE V4Add(InnerLoop(coord, tex, uResolution, i, n - 1),
               texture2D(tex, sampleCoord(coord, uResolution, i, n - 1)))

\* the outer loop, lines 75-81: the sum of the samples of the rows i < n
RECURSIVE OuterLoop(_, _, _, _)
OuterLoop(coord, tex, uResolution, n) ==
    IF n = 0 THEN << Num(0), Num(0), Num(0), Num(0) >>
    ELSE V4Add(OuterLoop(coord, tex, uResolution, n - 1),
               InnerLoop(coord, tex, uResolution, n - 1, SAMPLES))

\* the divisor of line 83
SampleCount_OneLoop == SAMPLES
SampleCount == SAMPLES * SAMPLES

\* sampleTexture(coord), lines 70-84
sampleTexture(coord, tex, uResolution) ==
    V4Div(OuterLoop(coord, tex, uResolution, SAMPLES), SampleCount)

\* any(lessThan(imgCoord, vec2(0.0))) || any(greaterThan(imgCoord, vec2(1.0))),
\* line 94
Discarded_BelowOnly(imgCoord) ==
    RLess(imgCoord[1], Num(0)) \/ RLess(imgCoord[2], Num(0))
Discarded(imgCoord) ==
    \/ RLess(imgCoord[1], Num(0)) \/ RLess(imgCoord[2], Num(0))
    \/ RLess(Num(1), imgCoord[1]) \/ RLess(Num(1), imgCoord[2])

\* lines 93-98 of main: the fragment is discarded, or gl_FragColor is set
Discard == << "discard" >>
gl_FragColor(imgCoord, tex, uResolution) ==
    IF Discarded(imgCoord) THEN Discard
    ELSE sampleTexture(imgCoord, tex, uResolution)

----------------------------------------------------------------------------
(* State *)

VARIABLES
    \* the raster worker (src/unnamed/part_000)
    inbox,      \* messages posted to the worker, not yet handled
    wpc,        \* "idle", or "loop" inside self.onmessage
    wreq,       \* e.data of the message being handled
    wi,         \* the loop counter i of lines 46-50
    result,     \* const result = new Uint8ClampedArray(w_proj * h_proj * 4)
    outbox,     \* messages posted by self.postMessage, not yet handled by the page
    \* history of the pass being computed
    writes,     \* per output pixel, how many times lines 37-40 wrote it
    reads       \* per evaluated output pixel, pix_img of line 32

VARIABLES
    \* the WebGL page (src/script.js, lines 319-663) and its WebGLRenderer
    gImg,           \* img: the src of the current Image object
    gComplete,      \* img.complete
    gLoads,         \* Image objects still loading: [key, cur]; cur: it is img
    gReaders,       \* files a FileReader is still reading
    gCtl,           \* the values of the six range inputs
    gIsProcessing,  \* isProcessing
    gAnimId,        \* animationFrameId is not null
    gPendingUpdate, \* pendingUpdate
    gRafPending,    \* rafPending of handleSliderChange
    gRaf,           \* animation-frame callbacks in request order: [kind, tracked];
                    \* tracked: animationFrameId is the id of this request
    gFrame,         \* the content of the canvas' drawing buffer
    gCache,         \* the keys of renderer.textureCache
    gErrors,        \* 'Render error:' lines written by console.error, line 433
    gTextures,      \* per key, the textures made by gl.createTexture in
                    \* loadTexture and not deleted
    gBuffers,       \* positionBuffer and texCoordBuffer exist
    gProgram,       \* the shader program exists
    gUnloaded,      \* the 'beforeunload' handler has run
    \* history
    gUploads,       \* per key, the calls of gl.texImage2D that have returned
    gReused,        \* the event just handled took a texture from the cache
    gDirty          \* an event has asked for a frame since the last render pass

VARIABLES
    \* the worker-based page (src/script.js, lines 665-897)
    pImg,           \* img: the src of the current Image object
    pLoaded,        \* img has loaded: img.width and img.height are set
    pLoads,         \* Image objects still loading: [key, cur]; cur: it is img
    pReaders,       \* files a FileReader is still reading
    pChosen,        \* files the user has chosen so far
    pCached,        \* cachedImageData: NoData, or the image it was read from
    pCtl,           \* the values of the range inputs
    pIsProcessing,  \* isProcessing
    pSince,         \* performance.now() - lastRenderTime, up to frameInterval
    pTimer,         \* NoTimer, or the time left of the timeout of throttle;
                    \* inThrottle is pTimer # NoTimer
    pRaf,           \* requestAnimationFrame(updateProjection) callbacks queued
    pCanvas,        \* the ImageData last put on the canvas
    \* history
    pPosted,        \* the range inputs of the last request posted, or NoCtl
    pShown          \* the range inputs the canvas was rendered from, or NoCtl

VARIABLES
    \* one evaluation of the projection math, outside any page
    calc            \* [op, in, done, out]: the function, its arguments,
                    \* whether it has been applied, and its value

workerVars == <<inbox, wpc, wreq, wi, result, outbox, writes, reads>>
pageVars == <<pImg, pLoaded, pLoads, pReaders, pChosen, pCached, pCtl, pIsProcessing,
              pSince, pTimer, pRaf, pCanvas, pPosted, pShown>>
gpuVars == <<gTextures, gBuffers, gProgram, gUnloaded, gUploads>>
glVars == <<gImg, gComplete, gLoads, gReaders, gCtl, gIsProcessing, gAnimId,
            gPendingUpdate, gRafPending, gRaf, gFrame, gCache, gErrors, gpuVars,
            gReused, gDirty>>
mathVars == <<calc>>
vars == <<workerVars, glVars, pageVars, mathVars>>

\* no evaluation
MathIdle == calc = [ op |-> "none", done |-> TRUE ]

----------------------------------------------------------------------------
(* Inputs of the worker *)

\* an ImageData of h x w pixels: 4 bytes per pixel, byte k holding k + 1
Image(h, w) ==
    [ height |-> h, width |-> w, data |-> [ k \in 0..(h * w * 4 - 1) |-> k + 1 ] ]

\* <<height, width>> of the image with key k
KeyDims(k) == CASE k % 3 = 0 -> <<1, 1>> [] k % 3 = 1 -> <<2, 4>> [] OTHER -> <<3, 2>>
ImgSizes == { KeyDims(k) : k \in 0..2 }
Scales == { Num(0), Num(1), Num(5) }
\* <<offset_hor, offset_ver>>
Offsets == { <<Half, Half>>, <<Num(0), Half>>, <<Half, Num(1)>>, <<Num(1), Num(0)>> }
\* <<alpha, beta, gamma>> in quarter turns
Rotations == { <<0, 0, 0>>, <<1, 0, 0>>, <<0, 1, 0>>, <<0, 0, 1>>,
               <<0, 2, 0>>, <<3, 0, 2>>, <<1, 1, 1>>, <<2, 3, 0>> }
RoundErr == { 0 - 1, 0, 1 }

Params(w, h, scale, alpha, beta, gamma, oh, ov) ==
    [ w_proj |-> w, h_proj |-> h, scale |-> scale, alpha |-> alpha, beta |-> beta,
      gamma |-> gamma, offset_hor |-> oh, offset_ver |-> ov ]

\* requests whose bands are followed: any output height, one parameter set
BandRequests ==
    { [ imageData |-> Image(1, 1),
        params |-> Params(w, h, Num(1), 0, 0, 0, Half, Half) ] :
      w \in 0..MaxW, h \in 0..MaxH }

\* requests whose pixels are followed: small outputs, every parameter set
PixRequests ==
    { [ imageData |-> Image(sz[1], sz[2]),
        params |-> Params(d[1], d[2], sc, a[1], a[2], a[3], o[1], o[2]) ] :
      sz \in ImgSizes, d \in (1..MaxPix) \X (1..MaxPix), sc \in Scales,
      a \in Rotations, o \in Offsets }

Requests == BandRequests \cup PixRequests

\* the spec's valid ProjectionParams
ValidParams(p) == RLess(Num(0), p.scale) /\ p.w_proj > 0 /\ p.h_proj > 0

----------------------------------------------------------------------------
(* self.onmessage of the raster worker *)

\* const r = Math.min(h_proj, w_proj) / 10 * scale, line 5
Radius(p) ==
    RMul(RDiv(Num(IF p.h_proj < p.w_proj THEN p.h_proj ELSE p.w_proj), Num(10)), p.scale)

\* a band height rounded up instead of down
chunkSize_Ceil(h_proj) == (h_proj + 9) \div 10

\* const chunkSize = Math.floor(h_proj / 10), line 26
chunkSize(h_proj) == h_proj \div 10

\* const startY = i * chunkSize, line 47
startY(i, h_proj) == i * chunkSize(h_proj)

\* a last band that does not take the remainder of the division
endY_NoRemainder(i, h_proj) == (i + 1) * (h_proj \div 10)

\* const endY = (i === 9) ? h_proj : (i + 1) * chunkSize, line 48
endY(i, h_proj) == IF i = 9 THEN h_proj ELSE (i + 1) * chunkSize(h_proj)

\* const pix_img = projection(pix_proj, r, ...), line 32, for pix_proj = [y, x]
pix_img(req, y, x, rnd) ==
    LET p == req.params
    IN  projection(<<y, x>>, rnd, Radius(p), req.imageData.height,
                   req.imageData.width, p.h_proj, p.w_proj,
                   p.offset_hor, p.offset_ver, rot_mat(p.alpha, p.beta, p.gamma))

\* const imgIndex = (pix_img[0] * imageData.width + pix_img[1]) * 4, line 35
imgIndex(pix, width) == RMul(RAdd(RMul(pix[1], Num(width)), pix[2]), Num(4))

\* a loop that stops one band early
LoopCond_Nine(i) == i < 9

\* for (let i = 0; i < 10; i++), line 46
LoopCond(i) == i < 10

\* imageData.data[idx] stored into a Uint8ClampedArray: a read outside the
\* buffer, or at NaN, is undefined, which is stored as 0
ReadByte(data, idx) ==
    IF idx[2] = 1 /\ idx[1] \in DOMAIN data THEN data[idx[1]] ELSE 0

\* pix_img of the first n output pixels, in the order of the loops of lines
\* 29-30
RECURSIVE Pixels(_, _, _)
Pixels(req, rnd, n) ==
    IF n = 0
    THEN <<>>
    ELSE Append(Pixels(req, rnd, n - 1),
                pix_img(req, (n - 1) \div req.params.w_proj,
                        (n - 1) % req.params.w_proj, rnd))

\* pix_img of every output pixel of the requests whose output is up to MaxH
\* rows high, computed once
PixImg ==
    [ req \in BandRequests |->
        [ rnd \in RoundErr |->
            Pixels(req, rnd, req.params.w_proj * req.params.h_proj) ] ]

\* the bytes that lines 35-40 store for the output pixels whose pix_img are
\* pix, in the order of the loops
Bytes(req, pix) ==
    [ k \in 0..(req.params.w_proj * req.params.h_proj * 4 - 1) |->
        ReadByte(req.imageData.data,
                 RAdd(imgIndex(pix[(k \div 4) + 1], req.imageData.width),
                      Num(k % 4))) ]

\* result after the ten bands
Raster(req, rnd) ==
    Bytes(req, Pixels(req, rnd, req.params.w_proj * req.params.h_proj))

\* the bytes stored for every output pixel of the same requests, computed
\* once
Stored ==
    [ req \in BandRequests |->
        [ rnd \in RoundErr |-> Bytes(req, PixImg[req][rnd]) ] ]

\* endY / h_proj of line 43 for every band of every output height, computed
\* once
Progress ==
    [ h \in { req.params.h_proj : req \in Requests } |->
        [ i \in 0..9 |-> RDiv(Num(endY(i, h)), Num(h)) ] ]

\* a handler that starts while another one runs
Receive_AnyTime ==
    /\ inbox # <<>>
    /\ wreq' = Head(inbox)
    /\ inbox' = Tail(inbox)
    /\ wpc' = "loop"
    /\ wi' = 0
    /\ LET p == Head(inbox).params
       IN  /\ result' = [ k \in 0..(p.w_proj * p.h_proj * 4 - 1) |-> 0 ]
           /\ writes' = [ k \in 0..(p.w_proj * p.h_proj - 1) |-> 0 ]
    /\ reads' = <<>>
    /\ UNCHANGED <<outbox, glVars, pageVars>>
    /\ UNCHANGED mathVars

\* lines 1-26: a message is taken; r, rot_mat, result and chunkSize are set up
Receive ==
    /\ wpc = "idle"
    /\ inbox # <<>>
    /\ wreq' = Head(inbox)
    /\ inbox' = Tail(inbox)
    /\ wpc' = "loop"
    /\ wi' = 0
    /\ LET p == Head(inbox).params
       IN  /\ result' = [ k \in 0..(p.w_proj * p.h_proj * 4 - 1) |-> 0 ]
           /\ writes' = [ k \in 0..(p.w_proj * p.h_proj - 1) |-> 0 ]
    /\ reads' = <<>>
    /\ UNCHANGED <<outbox, glVars, pageVars>>
    /\ UNCHANGED mathVars

\* one iteration of the loop of lines 46-50: processChunk(startY, endY),
\* lines 28-44.  rnd: the side on which the rotated z of a pixel is rounded.
\* At most one output pixel of a pass has its exact z on -r, so one choice per
\* band covers the outcomes.
ProcessChunk(rnd) ==
    /\ wpc = "loop"
    /\ LoopCond(wi)
    /\ LET p == wreq.params
           s == startY(wi, p.h_proj)
           e == endY(wi, p.h_proj)
           band == { px \in DOMAIN writes : px \div p.w_proj >= s /\ px \div p.w_proj < e }
           pix == IF wreq \in BandRequests
                  THEN PixImg[wreq][rnd]
                  ELSE Pixels(wreq, rnd, p.w_proj * p.h_proj)
           bytes == IF wreq \in BandRequests
                    THEN Stored[wreq][rnd]
                    ELSE Bytes(wreq, pix)
       IN  /\ reads' = [ px \in (DOMAIN reads) \cup band |->
                            IF px \in band THEN pix[px + 1] ELSE reads[px] ]
           /\ result' = [ k \in DOMAIN result |->
                            IF (k \div 4) \in band THEN bytes[k] ELSE result[k] ]
           /\ writes' = [ px \in DOMAIN writes |->
                            IF px \in band THEN writes[px] + 1 ELSE writes[px] ]
           /\ outbox' = Append(outbox, [ type |-> "progress",
                                         value |-> Progress[p.h_proj][wi] ])
    /\ wi' = wi + 1
    /\ UNCHANGED <<inbox, wpc, wreq, glVars, pageVars>>
    /\ UNCHANGED mathVars

NoReq == [ none |-> TRUE ]

\* line 52: self.postMessage({ type: 'done', result }); the handler returns
\* and its locals are gone
PostDone ==
    /\ wpc = "loop"
    /\ ~LoopCond(wi)
    /\ outbox' = Append(outbox, [ type |-> "done", result |-> result ])
    /\ wpc' = "idle"
    /\ wreq' = NoReq
    /\ wi' = 0
    /\ result' = <<>>
    /\ writes' = <<>>
    /\ reads' = <<>>
    /\ UNCHANGED <<inbox, glVars, pageVars>>
    /\ UNCHANGED mathVars

\* the worker after its script has been loaded
WorkerInit ==
    /\ inbox = <<>>
    /\ wpc = "idle"
    /\ wreq = NoReq
    /\ wi = 0
    /\ result = <<>>
    /\ outbox = <<>>
    /\ writes = <<>>
    /\ reads = <<>>

Worker == Receive \/ (\E rnd \in RoundErr : ProcessChunk(rnd)) \/ PostDone

\* the whole handler, lines 1-53, as the page that posted the request sees it:
\* the ten progress messages and the done message
\* a worker that posts the ten progress messages and no 'done' message
Posted_NoDone(req, rnd) ==
    [ i \in 1..10 |->
        [ type |-> "progress",
          value |-> RDiv(Num(endY(i - 1, req.params.h_proj)),
                         Num(req.params.h_proj)) ] ]

Posted(req, rnd) ==
    [ i \in 1..10 |->
        [ type |-> "progress",
          value |-> RDiv(Num(endY(i - 1, req.params.h_proj)),
                         Num(req.params.h_proj)) ] ]
      \o << [ type |-> "done", result |-> Raster(req, rnd) ] >>

----------------------------------------------------------------------------
(* The WebGL page: WebGLRenderer and the DOMContentLoaded handler *)

\* files the user can pick; the data URL of file f is the key f, and the
\* default image 'otto.webp' is the key 0
Files == 1..MaxFiles
\* positions of the range inputs
Controls == 0..MaxCtl

Blank == [ blank |-> TRUE ]

\* requestAnimationFrame(cb): a new request at the end of the queue; when
\* tracked, animationFrameId names it and no older request
Request(raf, kind, tracked) ==
    Append(IF tracked
           THEN [ i \in 1..Len(raf) |-> [ raf[i] EXCEPT !.tracked = FALSE ] ]
           ELSE raf,
           [ kind |-> kind, tracked |-> tracked ])

\* cancelAnimationFrame(animationFrameId)
Cancel(raf) == SelectSeq(raf, LAMBDA r : ~r.tracked)

\* requestUpdate() without the cancelAnimationFrame of lines 396-398
requestUpdate_NoCancel(isProcessing, pendingUpdate, animId, raf) ==
    IF isProcessing
    THEN <<TRUE, animId, raf>>
    ELSE <<pendingUpdate, TRUE,
           Append(raf, [ kind |-> "update", tracked |-> TRUE ])>>

\* requestUpdate(), lines 390-401: the new <<pendingUpdate, animationFrameId
\* set, queue>>
requestUpdate(isProcessing, pendingUpdate, animId, raf) ==
    IF isProcessing
    THEN <<TRUE, animId, raf>>
    ELSE <<pendingUpdate, TRUE,
           Request(IF animId THEN Cancel(raf) ELSE raf, "update", TRUE)>>

\* a handler that does nothing but call requestUpdate()
CallRequestUpdate ==
    LET u == requestUpdate(gIsProcessing, gPendingUpdate, gAnimId, gRaf)
    IN  /\ gPendingUpdate' = u[1]
        /\ gAnimId' = u[2]
        /\ gRaf' = u[3]

\* the keys of the texture cache: image.src, line 217
Keys == 0..MaxFiles

\* texture = this.textureCache.get(cacheKey); if (texture), lines 218-222
CacheHit_Never(cacheKey, cache) == FALSE
CacheHit(cacheKey, cache) == cacheKey \in cache

\* loadTexture(image), lines 216-245.  uploadOk: gl.texImage2D, line 233,
\* returns; otherwise it throws, after gl.createTexture of line 224 and
\* before this.textureCache.set of line 242.
\* The result is <<texture cache, textures, uploads, thrown>>.
loadTexture(image, cache, textures, uploads, uploadOk) ==
    IF CacheHit(image, cache)
    THEN << cache, textures, uploads, FALSE >>
    ELSE LET created == [ textures EXCEPT ![image] = @ + 1 ]
         IN  IF uploadOk
             THEN << cache \cup {image}, created,
                     [ uploads EXCEPT ![image] = @ + 1 ], FALSE >>
             ELSE << cache, created, uploads, TRUE >>

\* WebGLRenderer.render(params), lines 247-284.
\* The result is <<drawing buffer, texture cache, thrown, textures, uploads>>:
\* resizeViewport (lines 131-142) assigns canvas.width and canvas.height,
\* which resets the drawing buffer, and gl.clear clears it, before
\* loadTexture runs.
render(image, ctl, cache, textures, uploads, uploadOk) ==
    LET t == loadTexture(image, cache, textures, uploads, uploadOk)
    IN  IF t[4]
        THEN << Blank, t[1], TRUE, t[2], t[3] >>
        ELSE << [ image |-> image, ctl |-> ctl ], t[1], FALSE, t[2], t[3] >>

\* WebGLRenderer.destroy(), lines 303-316: the cached textures, the two
\* buffers and the program are deleted.
\* The result is <<texture cache, textures, buffers, program>>.
destroy(cache, textures) ==
    << {},
       [ k \in Keys |-> IF k \in cache THEN textures[k] - 1 ELSE textures[k] ],
       FALSE, FALSE >>

\* img.onload of an Image object, lines 353-357 and 371-374
GLImgLoad(l) ==
    /\ l \in gLoads
    /\ gLoads' = gLoads \ {l}
    /\ gComplete' = (gComplete \/ l.cur)
    /\ CallRequestUpdate
    /\ UNCHANGED <<gImg, gReaders, gCtl, gIsProcessing, gRafPending, gFrame,
                   gCache, gErrors, gpuVars, workerVars, pageVars>>
    /\ gReused' = FALSE
    /\ gDirty' = TRUE
    /\ UNCHANGED mathVars

\* the load of an Image object fails: img.onerror of the default image,
\* lines 349-352, only logs; an uploaded image has no handler.  A broken image is
\* complete.
GLImgError(l) ==
    /\ l \in gLoads
    /\ gLoads' = gLoads \ {l}
    /\ gComplete' = (gComplete \/ l.cur)
    /\ UNCHANGED <<gImg, gReaders, gCtl, gIsProcessing, gAnimId, gPendingUpdate,
                   gRafPending, gRaf, gFrame, gCache, gErrors, gpuVars, workerVars, pageVars>>
    /\ gReused' = FALSE
    /\ UNCHANGED gDirty
    /\ UNCHANGED mathVars

\* 'change' of the file input, lines 364-379: a FileReader starts
GLFileChange(f) ==
    /\ f \notin gReaders
    /\ gReaders' = gReaders \cup {f}
    /\ UNCHANGED <<gImg, gComplete, gLoads, gCtl, gIsProcessing, gAnimId,
                   gPendingUpdate, gRafPending, gRaf, gFrame, gCache, gErrors,
                   gpuVars, workerVars, pageVars>>
    /\ gReused' = FALSE
    /\ UNCHANGED gDirty
    /\ UNCHANGED mathVars

\* reader.onload, lines 369-376: img = new Image(); img.src = the data URL
GLReaderLoad(f) ==
    /\ f \in gReaders
    /\ gReaders' = gReaders \ {f}
    /\ gImg' = f
    /\ gComplete' = FALSE
    /\ gLoads' = { [ l EXCEPT !.cur = FALSE ] : l \in gLoads }
                   \cup { [ key |-> f, cur |-> TRUE ] }
    /\ UNCHANGED <<gCtl, gIsProcessing, gAnimId, gPendingUpdate, gRafPending,
                   gRaf, gFrame, gCache, gErrors, gpuVars, workerVars, pageVars>>
    /\ gReused' = FALSE
    /\ gDirty' = TRUE
    /\ UNCHANGED mathVars

\* handleSliderChange(input), lines 454-463, after an input, button, key or
\* touch event has moved the range inputs to c
GLSliderChange(c) ==
    /\ gCtl' = c
    /\ IF ~gRafPending
       THEN /\ gRafPending' = TRUE
            /\ gRaf' = Request(gRaf, "slider", FALSE)
       ELSE UNCHANGED <<gRafPending, gRaf>>
    /\ UNCHANGED <<gImg, gComplete, gLoads, gReaders, gIsProcessing, gAnimId,
                   gPendingUpdate, gFrame, gCache, gErrors, gpuVars, workerVars, pageVars>>
    /\ gReused' = FALSE
    /\ gDirty' = TRUE
    /\ UNCHANGED mathVars

\* the animation-frame callback of handleSliderChange, lines 458-461
GLSliderFrame ==
    /\ gRaf # <<>>
    /\ Head(gRaf).kind = "slider"
    /\ LET u == requestUpdate(gIsProcessing, gPendingUpdate, gAnimId, Tail(gRaf))
       IN  /\ gPendingUpdate' = u[1]
           /\ gAnimId' = u[2]
           /\ gRaf' = u[3]
    /\ gRafPending' = FALSE
    /\ UNCHANGED <<gImg, gComplete, gLoads, gReaders, gCtl, gIsProcessing,
                   gFrame, gCache, gErrors, gpuVars, workerVars, pageVars>>
    /\ gReused' = FALSE
    /\ UNCHANGED gDirty
    /\ UNCHANGED mathVars

\* updateProjection() as an animation-frame callback, lines 409-441.
\* isProcessing is set at line 417 and reset at line 436 of the same call.
GLUpdateProjection(uploadOk) ==
    /\ gRaf # <<>>
    /\ Head(gRaf).kind = "update"
    /\ IF ~gComplete \/ gIsProcessing
       THEN /\ uploadOk
            /\ IF gPendingUpdate
               THEN gAnimId' = TRUE /\ gRaf' = Request(Tail(gRaf), "update", TRUE)
               ELSE gAnimId' = gAnimId /\ gRaf' = Tail(gRaf)
            /\ gReused' = FALSE
            /\ UNCHANGED gDirty
            /\ UNCHANGED <<gIsProcessing, gPendingUpdate, gFrame, gCache, gErrors,
                           gTextures, gUploads>>
       ELSE LET out == render(gImg, gCtl, gCache, gTextures, gUploads, uploadOk)
            IN  /\ out[3] => gErrors < MaxErrors
                /\ ~out[3] => uploadOk
                /\ gFrame' = out[1]
                /\ gCache' = out[2]
                /\ gTextures' = out[4]
                /\ gUploads' = out[5]
                /\ gReused' = CacheHit(gImg, gCache)
                /\ gDirty' = FALSE
                /\ gErrors' = IF out[3] THEN gErrors + 1 ELSE gErrors
                /\ gIsProcessing' = FALSE
                /\ gPendingUpdate' = FALSE
                /\ gRaf' = Tail(gRaf)
                /\ gAnimId' = gAnimId
    /\ UNCHANGED <<gImg, gComplete, gLoads, gReaders, gCtl, gRafPending,
                   gBuffers, gProgram, gUnloaded, workerVars, pageVars>>
    /\ UNCHANGED mathVars

\* the timeout of the 'resize' listener, lines 652-656: assigning
\* canvas.width and canvas.height resets the drawing buffer
GLResize ==
    /\ gFrame' = Blank
    /\ CallRequestUpdate
    /\ UNCHANGED <<gImg, gComplete, gLoads, gReaders, gCtl, gIsProcessing,
                   gRafPending, gCache, gErrors, gpuVars, workerVars, pageVars>>
    /\ gReused' = FALSE
    /\ gDirty' = TRUE
    /\ UNCHANGED mathVars

\* the 'beforeunload' listener, lines 660-662: renderer.destroy()
GLBeforeUnload ==
    /\ ~gUnloaded
    /\ gUnloaded' = TRUE
    /\ LET d == destroy(gCache, gTextures)
       IN  /\ gCache' = d[1]
           /\ gTextures' = d[2]
           /\ gBuffers' = d[3]
           /\ gProgram' = d[4]
    /\ UNCHANGED <<gImg, gComplete, gLoads, gReaders, gCtl, gIsProcessing,
                   gAnimId, gPendingUpdate, gRafPending, gRaf, gFrame, gErrors,
                   gUploads, workerVars, pageVars>>
    /\ gReused' = FALSE
    /\ UNCHANGED gDirty
    /\ UNCHANGED mathVars

NoData == 0 - 1
NoTimer == 0 - 1
NoCtl == 0 - 1

\* the page before the ready handler
PageIdle ==
    /\ pImg = 0
    /\ pLoaded = FALSE
    /\ pLoads = {}
    /\ pReaders = {}
    /\ pChosen = {}
    /\ pCached = NoData
    /\ pCtl = 0
    /\ pIsProcessing = FALSE
    /\ pSince = 0
    /\ pTimer = NoTimer
    /\ pRaf = 0
    /\ pCanvas = Blank
    /\ pPosted = NoCtl
    /\ pShown = NoCtl

\* the page before DOMContentLoaded
GLIdle ==
    /\ gImg = 0
    /\ gComplete = TRUE
    /\ gLoads = {}
    /\ gReaders = {}
    /\ gCtl = 0
    /\ gIsProcessing = FALSE
    /\ gAnimId = FALSE
    /\ gPendingUpdate = FALSE
    /\ gRafPending = FALSE
    /\ gRaf = <<>>
    /\ gFrame = Blank
    /\ gCache = {}
    /\ gErrors = 0
    /\ gTextures = [ k \in Keys |-> 0 ]
    /\ gBuffers = FALSE
    /\ gProgram = FALSE
    /\ gUnloaded = FALSE
    /\ gUploads = [ k \in Keys |-> 0 ]
    /\ gReused = FALSE
    /\ gDirty = FALSE

\* after the DOMContentLoaded handler: loadDefaultImage() has started the
\* load of 'otto.webp'
InitGL ==
    /\ WorkerInit
    /\ PageIdle
    /\ MathIdle
    /\ gImg = 0
    /\ gComplete = FALSE
    /\ gLoads = { [ key |-> 0, cur |-> TRUE ] }
    /\ gReaders = {}
    /\ gCtl = 0
    /\ gIsProcessing = FALSE
    /\ gAnimId = FALSE
    /\ gPendingUpdate = FALSE
    /\ gRafPending = FALSE
    /\ gRaf = <<>>
    /\ gFrame = Blank
    /\ gCache = {}
    /\ gErrors = 0
    \* new WebGLRenderer(canvas), lines 102-129: initShaderProgram,
    \* initBuffers and an empty textureCache
    /\ gTextures = [ k \in Keys |-> 0 ]
    /\ gBuffers = TRUE
    /\ gProgram = TRUE
    /\ gUnloaded = FALSE
    /\ gUploads = [ k \in Keys |-> 0 ]
    /\ gReused = FALSE
    /\ gDirty = FALSE

\* no event reaches the page after it has been unloaded
NextGL ==
    \/ ~gUnloaded /\ \E l \in gLoads : GLImgLoad(l)
    \/ ~gUnloaded /\ \E l \in gLoads : GLImgError(l)
    \/ ~gUnloaded /\ \E f \in Files : GLFileChange(f)
    \/ ~gUnloaded /\ \E f \in Files : GLReaderLoad(f)
    \/ ~gUnloaded /\ \E c \in Controls : GLSliderChange(c)
    \/ ~gUnloaded /\ GLSliderFrame
    \/ ~gUnloaded /\ \E uploadOk \in BOOLEAN : GLUpdateProjection(uploadOk)
    \/ ~gUnloaded /\ GLResize
    \/ GLBeforeUnload

SpecGL == InitGL /\ [][NextGL]_vars

\* an animation-frame callback of the page
Callback == GLSliderFrame \/ \E uploadOk \in BOOLEAN : GLUpdateProjection(uploadOk)

\* the page while it stays open and every image that was asked for loads
NextGLLive ==
    \/ \E l \in gLoads : GLImgLoad(l)
    \/ \E f \in Files : GLFileChange(f)
    \/ \E f \in Files : GLReaderLoad(f)
    \/ \E c \in Controls : GLSliderChange(c)
    \/ GLSliderFrame
    \/ \E uploadOk \in BOOLEAN : GLUpdateProjection(uploadOk)
    \/ GLResize

\* the browser runs every animation-frame callback that has been requested
\* and not cancelled
SpecGLLive == InitGL /\ [][NextGLLive]_vars /\ WF_vars(Callback)

----------------------------------------------------------------------------
(* The worker-based page: the $(document).ready handler *)

\* the range inputs at position c: the alpha input at c quarter turns, the
\* other inputs at scale 1, no rotation and centred offsets
CtlParams(c) == Params(OutW, OutH, Num(1), c % 4, 0, 0, Half, Half)

\* the message of lines 789-800
Message(cached, img, loaded, ctl) ==
    [ imageData |-> [ data |-> Image(KeyDims(cached)[1], KeyDims(cached)[2]).data,
                      width |-> IF loaded THEN KeyDims(img)[2] ELSE 0,
                      height |-> IF loaded THEN KeyDims(img)[1] ELSE 0 ],
      params |-> CtlParams(ctl) ]

\* the messages the page can post, and the answers of the worker to each of
\* them, computed once
Messages ==
    { Message(cached, img, loaded, ctl) :
        cached \in 0..MaxFiles, img \in 0..MaxFiles, loaded \in BOOLEAN,
        ctl \in Controls }
Answers == { <<m, rnd, Posted(m, rnd)>> : m \in Messages, rnd \in RoundErr }
Answer(m, rnd) == (CHOOSE a \in Answers : a[1] = m /\ a[2] = rnd)[3]

\* self.onmessage of the worker of the page runs for the next message
OnMessage(rnd) ==
    /\ wpc = "idle"
    /\ inbox # <<>>
    /\ inbox' = Tail(inbox)
    /\ outbox' = outbox \o Answer(Head(inbox), rnd)
    /\ UNCHANGED <<wpc, wreq, wi, result, writes, reads, glVars, pageVars>>
    /\ UNCHANGED mathVars

\* a guard that forgets isProcessing
Busy_CacheOnly(isProcessing, cached) == cached = NoData

\* if (isProcessing || !cachedImageData) return, line 772
Busy(isProcessing, cached) == isProcessing \/ cached = NoData

\* updateProjection(), lines 765-809, the function wrapped by throttle, lines
\* 754-763, called when cachedImageData is cached and img.width and
\* img.height, read at lines 792-793, are those of a loaded image or 0
UpdateProjection(cached, loaded) ==
    IF pTimer # NoTimer
    THEN UNCHANGED <<pTimer, pRaf, pIsProcessing, pSince, pPosted, inbox>>
    ELSE /\ pTimer' = FrameInterval
         /\ IF pSince < FrameInterval
            THEN /\ pRaf' = pRaf + 1
                 /\ UNCHANGED <<pIsProcessing, pSince, pPosted, inbox>>
            ELSE IF Busy(pIsProcessing, cached)
            THEN UNCHANGED <<pRaf, pIsProcessing, pSince, pPosted, inbox>>
            ELSE /\ pIsProcessing' = TRUE
                 /\ pSince' = 0
                 /\ inbox' = Append(inbox, Message(cached, pImg, loaded, pCtl'))
                 /\ pPosted' = pCtl'
                 /\ UNCHANGED pRaf

\* img.onload, lines 718-723 and 736-740: cachedImageData = getPixelData(img),
\* lines 811-818, reads the current img, whichever Image object has loaded;
\* getImageData throws for an img of width 0 and ends the handler
PageImgLoad(l) ==
    /\ l \in pLoads
    /\ pLoads' = pLoads \ {l}
    /\ pLoaded' = (pLoaded \/ l.cur)
    /\ UNCHANGED <<pImg, pReaders, pChosen, pCtl, pCanvas, pShown>>
    /\ UNCHANGED <<wpc, wreq, wi, result, outbox, writes, reads, glVars>>
    /\ IF pLoaded'
       THEN pCached' = pImg /\ UpdateProjection(pImg, TRUE)
       ELSE UNCHANGED <<pCached, pTimer, pRaf, pIsProcessing, pSince, pPosted, inbox>>
    /\ UNCHANGED mathVars

\* the load of an Image object fails; img.onerror, lines 714-717, only logs
PageImgError(l) ==
    /\ l \in pLoads
    /\ pLoads' = pLoads \ {l}
    /\ UNCHANGED <<pImg, pLoaded, pReaders, pChosen, pCached, pCtl, pIsProcessing, pSince,
                   pTimer, pRaf, pCanvas, pPosted, pShown, workerVars, glVars>>
    /\ UNCHANGED mathVars

\* 'change' of the file input, lines 729-745: a FileReader starts; the user
\* chooses each file once
PageFileChange(f) ==
    /\ f \notin pChosen
    /\ pChosen' = pChosen \cup {f}
    /\ pReaders' = pReaders \cup {f}
    /\ UNCHANGED <<pImg, pLoaded, pLoads, pCached, pCtl, pIsProcessing, pSince,
                   pTimer, pRaf, pCanvas, pPosted, pShown, workerVars, glVars>>
    /\ UNCHANGED mathVars

\* reader.onload, lines 734-742: img = new Image(); img.src = the data URL
PageReaderLoad(f) ==
    /\ f \in pReaders
    /\ pReaders' = pReaders \ {f}
    /\ pImg' = f
    /\ pLoaded' = FALSE
    /\ pLoads' = { [ l EXCEPT !.cur = FALSE ] : l \in pLoads }
                   \cup { [ key |-> f, cur |-> TRUE ] }
    /\ UNCHANGED <<pChosen, pCached, pCtl, pIsProcessing, pSince, pTimer, pRaf,
                   pCanvas, pPosted, pShown, workerVars, glVars>>
    /\ UNCHANGED mathVars

\* 'input' of a range input, lines 831-834, and startAdjust of an adjust
\* button, lines 840-848: the inputs move to c and updateProjection() is called
PageInput(c) ==
    /\ pCtl' = c
    /\ UpdateProjection(pCached, pLoaded)
    /\ UNCHANGED <<pImg, pLoaded, pLoads, pReaders, pChosen, pCached, pCanvas, pShown>>
    /\ UNCHANGED <<wpc, wreq, wi, result, outbox, writes, reads, glVars>>
    /\ UNCHANGED mathVars

\* the animation-frame callback requested at line 768
PageFrame ==
    /\ pRaf > 0
    /\ IF pTimer # NoTimer
       THEN pRaf' = pRaf - 1 /\ UNCHANGED <<pTimer, pIsProcessing, pSince, pPosted, inbox>>
       ELSE /\ pTimer' = FrameInterval
            /\ IF pSince < FrameInterval
               THEN UNCHANGED <<pRaf, pIsProcessing, pSince, pPosted, inbox>>
               ELSE IF Busy(pIsProcessing, pCached)
               THEN pRaf' = pRaf - 1 /\ UNCHANGED <<pIsProcessing, pSince, pPosted, inbox>>
               ELSE /\ pRaf' = pRaf - 1
                    /\ pIsProcessing' = TRUE
                    /\ pSince' = 0
                    /\ inbox' = Append(inbox, Message(pCached, pImg, pLoaded, pCtl))
                    /\ pPosted' = pCtl
    /\ UNCHANGED <<pImg, pLoaded, pLoads, pReaders, pChosen, pCached, pCtl, pCanvas, pShown>>
    /\ UNCHANGED <<wpc, wreq, wi, result, outbox, writes, reads, glVars>>
    /\ UNCHANGED mathVars

\* the timeout of throttle, line 760: inThrottle = false
PageTimeout ==
    /\ pTimer = 0
    /\ pTimer' = NoTimer
    /\ UNCHANGED <<pImg, pLoaded, pLoads, pReaders, pChosen, pCached, pCtl, pIsProcessing,
                   pSince, pRaf, pCanvas, pPosted, pShown, workerVars, glVars>>
    /\ UNCHANGED mathVars

\* time passes
PageTick ==
    /\ pSince < FrameInterval \/ pTimer > 0
    /\ pSince' = IF pSince < FrameInterval THEN pSince + 1 ELSE pSince
    /\ pTimer' = IF pTimer > 0 THEN pTimer - 1 ELSE pTimer
    /\ UNCHANGED <<pImg, pLoaded, pLoads, pReaders, pChosen, pCached, pCtl, pIsProcessing,
                   pRaf, pCanvas, pPosted, pShown, workerVars, glVars>>
    /\ UNCHANGED mathVars

\* worker.onmessage, lines 802-808
PageOnMessage ==
    /\ outbox # <<>>
    /\ outbox' = Tail(outbox)
    /\ IF Head(outbox).type = "done"
       THEN /\ pCanvas' = Head(outbox).result
            /\ pShown' = pPosted
            /\ pIsProcessing' = FALSE
       ELSE UNCHANGED <<pCanvas, pShown, pIsProcessing>>
    /\ UNCHANGED <<pImg, pLoaded, pLoads, pReaders, pChosen, pCached, pCtl, pSince, pTimer,
                   pRaf, pPosted, inbox, wpc, wreq, wi, result, writes, reads, glVars>>
    /\ UNCHANGED mathVars

\* after the ready handler: loadDefaultImage() has started the load of
\* 'otto.png'; lastRenderTime is 0 and performance.now() is any time
InitPage ==
    /\ WorkerInit
    /\ GLIdle
    /\ MathIdle
    /\ pImg = 0
    /\ pLoaded = FALSE
    /\ pLoads = { [ key |-> 0, cur |-> TRUE ] }
    /\ pReaders = {}
    /\ pChosen = {}
    /\ pCached = NoData
    /\ pCtl = 0
    /\ pIsProcessing = FALSE
    /\ pSince \in 0..FrameInterval
    /\ pTimer = NoTimer
    /\ pRaf = 0
    /\ pCanvas = Blank
    /\ pPosted = NoCtl
    /\ pShown = NoCtl

NextPage ==
    \/ \E l \in pLoads : PageImgLoad(l)
    \/ \E l \in pLoads : PageImgError(l)
    \/ \E f \in Files : PageFileChange(f)
    \/ \E f \in Files : PageReaderLoad(f)
    \/ \E c \in Controls : PageInput(c)
    \/ PageFrame
    \/ PageTimeout
    \/ PageTick
    \/ PageOnMessage
    \/ \E rnd \in RoundErr : OnMessage(rnd)

SpecPage == InitPage /\ [][NextPage]_vars

----------------------------------------------------------------------------
(* src/script.js as a whole: a document runs one of its two pages *)

\* the DOMContentLoaded handler of lines 319-663 has run
GLOpen == gProgram \/ gUnloaded

InitScript == InitGL \/ InitPage
NextScript ==
    \/ GLOpen /\ ~gUnloaded /\ \E l \in gLoads : GLImgLoad(l)
    \/ GLOpen /\ ~gUnloaded /\ \E l \in gLoads : GLImgError(l)
    \/ GLOpen /\ ~gUnloaded /\ \E f \in Files : GLFileChange(f)
    \/ GLOpen /\ ~gUnloaded /\ \E f \in Files : GLReaderLoad(f)
    \/ GLOpen /\ ~gUnloaded /\ \E c \in Controls : GLSliderChange(c)
    \/ GLOpen /\ ~gUnloaded /\ GLSliderFrame
    \/ GLOpen /\ ~gUnloaded
          /\ \E uploadOk \in BOOLEAN : GLUpdateProjection(uploadOk)
    \/ GLOpen /\ ~gUnloaded /\ GLResize
    \/ GLOpen /\ GLBeforeUnload
    \/ ~GLOpen /\ \E l \in pLoads : PageImgLoad(l)
    \/ ~GLOpen /\ \E l \in pLoads : PageImgError(l)
    \/ ~GLOpen /\ \E f \in Files : PageFileChange(f)
    \/ ~GLOpen /\ \E f \in Files : PageReaderLoad(f)
    \/ ~GLOpen /\ \E c \in Controls : PageInput(c)
    \/ ~GLOpen /\ PageFrame
    \/ ~GLOpen /\ PageTimeout
    \/ ~GLOpen /\ PageTick
    \/ ~GLOpen /\ PageOnMessage
    \/ ~GLOpen /\ \E rnd \in RoundErr : OnMessage(rnd)

\* the worker runs its handler for a message it has received, and the page
\* runs worker.onmessage for a message the worker has posted
SpecScriptLive ==
    /\ InitScript
    /\ [][NextScript]_vars
    /\ WF_vars(\E rnd \in RoundErr : OnMessage(rnd))
    /\ WF_vars(PageOnMessage)

----------------------------------------------------------------------------
(* The worker alone, driven by any request *)

\* a request is posted to the idle worker
Submit(req) ==
    /\ wpc = "idle"
    /\ inbox = <<>>
    /\ outbox = <<>>
    /\ inbox' = <<req>>
    /\ UNCHANGED <<wpc, wreq, wi, result, outbox, writes, reads, glVars, pageVars>>
    /\ UNCHANGED mathVars

\* the messages of a finished pass are taken by the receiver
Collect ==
    /\ wpc = "idle"
    /\ outbox # <<>>
    /\ outbox' = <<>>
    /\ UNCHANGED <<inbox, wpc, wreq, wi, result, writes, reads, glVars, pageVars>>
    /\ UNCHANGED mathVars

\* a request that is posted while the handler runs
Waiting ==
    [ imageData |-> Image(1, 1),
      params |-> Params(1, 1, Num(1), 0, 0, 0, Half, Half) ]

\* a request is posted to the worker while self.onmessage handles another, one
\* whose bands are followed
SubmitBusy ==
    /\ wpc = "loop"
    /\ wreq \in BandRequests
    /\ inbox = <<>>
    /\ inbox' = << Waiting >>
    /\ UNCHANGED <<wpc, wreq, wi, result, outbox, writes, reads, glVars, pageVars>>
    /\ UNCHANGED mathVars

\* the statements of self.onmessage after the set-up, lines 28-52: they run
\* without a pause, the handler having no await, timer or callback
Handler == (\E rnd \in RoundErr : ProcessChunk(rnd)) \/ PostDone

InitWorker == WorkerInit /\ GLIdle /\ PageIdle /\ MathIdle
\* the receiver takes the messages of a pass before the next message event
\* is dispatched to the worker
NextWorker ==
    \/ \E req \in Requests : Submit(req)
    \/ SubmitBusy
    \/ Collect
    \/ outbox = <<>> /\ Receive
    \/ \E rnd \in RoundErr : ProcessChunk(rnd)
    \/ PostDone
SpecWorker == InitWorker /\ [][NextWorker]_vars
\* the same steps for the requests whose output is up to MaxH rows high
NextWorkerLive ==
    \/ \E req \in BandRequests : Submit(req)
    \/ SubmitBusy
    \/ Collect
    \/ outbox = <<>> /\ Receive
    \/ \E rnd \in RoundErr : ProcessChunk(rnd)
    \/ PostDone
\* a handler that has started is run by the event loop until it returns
SpecWorkerLive == InitWorker /\ [][NextWorkerLive]_vars /\ WF_vars(Handler)

----------------------------------------------------------------------------
(* The projection math alone: one function applied to one argument list *)

Coordinates == (0 - MaxCoord)..MaxCoord
Angles == 0..3

\* texture coordinates: -1/2, 0, 1/2, 1, 3/2
TexCoords == { Norm(k, 2) : k \in (0 - 1)..3 }

\* colours RGBA, each component a byte / 255
Colour(r, g, b, a) == << Norm(r, 255), Norm(g, 255), Norm(b, 255), Norm(a, 255) >>
Colours == { Colour(255, 0, 0, 255), Colour(10, 128, 77, 200) }
\* textures one texel high: a sequence of one or two texels
Textures == { <<c>> : c \in Colours } \cup { <<c, d>> : c, d \in Colours }
Uniform(tex) == \A i \in 1..Len(tex) : tex[i] = tex[1]

Todo(op, in) == [ op |-> op, in |-> in, done |-> FALSE, out |-> <<>> ]

RotateInputs ==
    { Todo("rotate", [ alpha |-> a, beta |-> b, gamma |-> g,
                       P |-> << Num(x), Num(y), Num(z) >> ]) :
        a \in Angles, b \in Angles, g \in Angles,
        x \in Coordinates, y \in Coordinates, z \in Coordinates }

SphereInputs ==
    { Todo("sphere", [ x |-> x, y |-> y, r |-> r ]) :
        x \in Coordinates, y \in Coordinates, r \in 0..MaxR }

PlaneInputs ==
    UNION { { Todo("plane", [ row |-> row, col |-> col, h |-> h, w |-> w,
                              offset_hor |-> o[1], offset_ver |-> o[2] ]) :
                row \in 0..(h - 1), col \in 0..(w - 1), o \in Offsets } :
            h \in 1..MaxPix, w \in 1..MaxPix }

FragmentInputs ==
    { Todo("fragment", [ imgCoord |-> <<u, v>>, tex |-> tex,
                         uResolution |-> << Num(OutW), Num(OutH) >> ]) :
        u \in TexCoords, v \in TexCoords, tex \in Textures }

\* the fragments of small canvases whose rotated point has an exact image
\* coordinate, with uRadius > 0
CoordScales == { Num(1), Num(5), Num(10) }
CoordOffsets == Offsets \cup { <<Num(0), Num(0)>>, <<Num(1), Num(1)>> }
CoordInputs ==
    { t \in UNION { { Todo("texcoord",
                           [ row |-> row, col |-> col,
                             uResolution |-> << Num(n), Num(n) >>,
                             uOffset |-> o, uScale |-> sc, uRotation |-> a ]) :
                        row \in 0..(n - 1), col \in 0..(n - 1),
                        o \in CoordOffsets, sc \in CoordScales,
                        a \in Rotations } :
                    n \in 1..MaxPix } :
        LET pt == FragRotatedPoint(t.in)
            r  == uRadius(t.in.uResolution, t.in.uScale)
        IN  /\ RLess(Num(0), r)
            /\ ExactDirection(pt[1], pt[2])
            /\ RDiv(clamp(pt[3], RNeg(r), r), r) \in ExactCosines }

\* rotMat * spherePoint of the shader and axisRotate(P, rot_mat) of the
\* worker, for the same angles and the same point
ApplyRotate ==
    /\ calc.op = "rotate" /\ ~calc.done
    /\ LET in == calc.in
       IN  calc' = [ calc EXCEPT !.done = TRUE, !.out =
               [ raster |-> axisRotate(in.P, rot_mat(in.alpha, in.beta, in.gamma)),
                 fragment |-> rotatedPoint(
                     computeRotationMatrix(in.alpha, in.beta, in.gamma), in.P) ] ]
    /\ UNCHANGED <<workerVars, glVars, pageVars>>

\* getPointOnSphere of the worker and projectToSphere of the shader at the
\* plane point (x, y, 0) with radius r: the uniforms are uOffset = (0.5, 0.5),
\* uResolution = (10, 10) and uScale = r
ApplySphere ==
    /\ calc.op = "sphere" /\ ~calc.done
    /\ LET in == calc.in
           pt == << Num(in.x), Num(in.y), Num(0) >>
           res == << Num(10), Num(10) >>
           off == << Half, Half >>
       IN  calc' = [ calc EXCEPT !.done = TRUE, !.out =
               [ raster |-> getPointOnSphere(pt, Num(in.r)),
                 rasterDen |-> Denominator(pt, Num(in.r)),
                 fragment |-> projectToSphere(pt, off, res, Num(in.r)),
                 fragmentDen |-> FragDenominator(point(pt, off, res), Num(in.r)) ] ]
    /\ UNCHANGED <<workerVars, glVars, pageVars>>

\* the plane point of the output pixel (row, col) in the worker and in the
\* shader, whose uniforms are uResolution = (canvas.width, canvas.height)
\* and uOffset = (offsetHor, offsetVer), lines 260 and 263
ApplyPlane ==
    /\ calc.op = "plane" /\ ~calc.done
    /\ LET in == calc.in
       IN  calc' = [ calc EXCEPT !.done = TRUE, !.out =
               [ raster |-> Q(<<in.row, in.col>>, in.h, in.w,
                              in.offset_hor, in.offset_ver),
                 fragment |-> point(pixCoord(in.row, in.col),
                                    << in.offset_hor, in.offset_ver >>,
                                    << Num(in.w), Num(in.h) >>) ] ]
    /\ UNCHANGED <<workerVars, glVars, pageVars>>

\* the end of main for a mapped coordinate imgCoord = (col, row), and the
\* source pixel [row index, column index] the worker returns for the same
\* coordinate, the image being the texture
ApplyFragment ==
    /\ calc.op = "fragment" /\ ~calc.done
    /\ LET in == calc.in
       IN  calc' = [ calc EXCEPT !.done = TRUE, !.out =
               [ color |-> gl_FragColor(in.imgCoord, in.tex, in.uResolution),
                 raster |-> << Wrap(in.imgCoord[2], 1),
                               Wrap(in.imgCoord[1], Len(in.tex)) >> ] ]
    /\ UNCHANGED <<workerVars, glVars, pageVars>>

InitMath ==
    /\ WorkerInit
    /\ GLIdle
    /\ PageIdle
    /\ calc \in RotateInputs \cup SphereInputs \cup PlaneInputs \cup FragmentInputs
                \cup CoordInputs

\* imgCoord of main, line 91
ApplyTexCoord(undef) ==
    /\ calc.op = "texcoord" /\ ~calc.done
    /\ LET in == calc.in
           pt == FragRotatedPoint(in)
       IN  calc' = [ calc EXCEPT !.done = TRUE, !.out =
               [ rotatedPoint |-> pt,
                 imgCoord |-> FragGetPixOnImg(
                                  pt, uRadius(in.uResolution, in.uScale), undef) ] ]
    /\ UNCHANGED <<workerVars, glVars, pageVars>>

NextMath ==
    \/ ApplyRotate
    \/ ApplySphere
    \/ ApplyPlane
    \/ ApplyFragment
    \/ \E undef \in AtanUndefined : ApplyTexCoord(undef)

SpecMath == InitMath /\ [][NextMath]_vars

----------------------------------------------------------------------------
(* Properties of the raster worker, checked under SpecWorker *)

\* C1 (as claimed): for every request with h_proj > 0 and w_proj > 0 the
\* 'progress' values posted so far are strictly increasing, and every
\* 'progress' message precedes the single 'done' message.
C1_ProgressStrictlyIncreasing ==
    /\ (wpc = "loop" /\ wreq.params.h_proj > 0 /\ wreq.params.w_proj > 0)
         => \A i, j \in 1..Len(outbox) :
               i < j => /\ outbox[i].type = "progress"
                        /\ outbox[j].type = "progress"
                        /\ RLess(outbox[i].value, outbox[j].value)
    /\ \A i \in 1..Len(outbox) : outbox[i].type = "done" => i = Len(outbox)

\* C2 (as claimed): for valid parameters and a source image with h_img > 0 and
\* w_img > 0, every pix_img computed for an output pixel is an integer pair
\* with 0 <= row < h_img and 0 <= col < w_img.
C2_SourceIndexInBounds ==
    (wpc = "loop" /\ ValidParams(wreq.params)
       /\ wreq.imageData.height > 0 /\ wreq.imageData.width > 0)
      => \A px \in DOMAIN reads :
            /\ reads[px][1] \in { Num(i) : i \in 0..(wreq.imageData.height - 1) }
            /\ reads[px][2] \in { Num(i) : i \in 0..(wreq.imageData.width - 1) }

\* C5: 'done' is posted once per request, after all 10 bands, when every
\* output pixel has been written, and it carries the buffer of
\* w_proj * h_proj * 4 bytes.
C5_DoneOnceAndComplete ==
    [][ (wpc = "loop" /\ wpc' = "idle")
          => /\ wi = 10
             /\ Len(outbox) = 10
             /\ \A i \in 1..Len(outbox) : outbox[i].type = "progress"
             /\ \A px \in DOMAIN writes : writes[px] >= 1
             /\ DOMAIN writes = 0..(wreq.params.w_proj * wreq.params.h_proj - 1)
             /\ DOMAIN result = 0..(wreq.params.w_proj * wreq.params.h_proj * 4 - 1)
             /\ outbox' = Append(outbox, [ type |-> "done", result |-> result ]) ]_vars

C5_Witness ==
    /\ wpc = "idle"
    /\ Len(outbox) = 11
    /\ outbox[11].type = "done"
    /\ DOMAIN outbox[11].result = 0..(13 * 4 - 1)

\* C6: for every h_proj > 0 the 10 bands [startY, endY) are contiguous, in
\* ascending order, start at row 0 and end at row h_proj, and every output
\* pixel is written exactly once per pass: after i bands exactly the pixels of
\* the rows below the end of band i - 1 have been written, once.
C6_BandsPartitionRows ==
    (wpc = "loop" /\ wreq.params.h_proj > 0)
      => LET h == wreq.params.h_proj
             w == wreq.params.w_proj
         IN  /\ startY(0, h) = 0
             /\ endY(9, h) = h
             /\ \A i \in 0..8 : endY(i, h) = startY(i + 1, h)
             /\ \A i \in 0..9 : startY(i, h) <= endY(i, h)
             /\ DOMAIN writes = 0..(w * h - 1)
             /\ \A px \in DOMAIN writes :
                   writes[px] = IF wi > 0 /\ px \div w < endY(wi - 1, h) THEN 1 ELSE 0
             /\ wi = 10 => \A px \in DOMAIN writes : writes[px] = 1

C6_Witness ==
    /\ wpc = "loop"
    /\ wi = 10
    /\ wreq.params.h_proj = 13
    /\ wreq.params.w_proj = 1
    /\ \A px \in 0..12 : writes[px] = 1

\* C7 (as claimed): for every h_proj > 0 every 'progress' value v posted
\* satisfies 0 < v <= 1.
C7_ProgressInUnitInterval ==
    (wpc = "loop" /\ wreq.params.h_proj > 0)
      => \A i \in 1..Len(outbox) :
            outbox[i].type = "progress"
              => RLess(Num(0), outbox[i].value) /\ RLeq(outbox[i].value, Num(1))

\* C8: when h_proj is a positive multiple of 10, the messages of the pass
\* are, at the moment 'done' is posted, exactly the ten 'progress' messages
\* 1/10, 2/10, ..., 10/10 in this order, followed by 'done'.
C8_TenthsThenDone ==
    [][ (wpc = "loop" /\ wpc' = "idle"
           /\ wreq.params.h_proj > 0 /\ wreq.params.h_proj % 10 = 0)
          => /\ Len(outbox') = 11
             /\ \A i \in 1..10 :
                   outbox'[i] = [ type |-> "progress", value |-> Norm(i, 10) ]
             /\ outbox'[11].type = "done" ]_vars

C8_Witness ==
    /\ wpc = "idle"
    /\ Len(outbox) = 11
    /\ outbox[1] = [ type |-> "progress", value |-> Norm(1, 10) ]
    /\ outbox[10] = [ type |-> "progress", value |-> Num(1) ]
    /\ outbox[11].type = "done"
    /\ DOMAIN outbox[11].result = 0..(20 * 4 - 1)

\* C10 (as claimed, for the worker): no output pixel is evaluated for a
\* request with scale <= 0, w_proj <= 0 or h_proj <= 0.
C10_InvalidRejectedBeforePixels ==
    ~(wpc = "loop" /\ ~ValidParams(wreq.params) /\ reads # <<>>)

(* C17 *)
\* C17 (as claimed): for valid parameters and an image with h_img > 0 and
\* w_img > 0, the four bytes of every output pixel are the four bytes of one
\* source pixel, so that an image of one colour gives an output of that
\* colour.
C17_PixelCopiedFromSource ==
    (wpc = "loop" /\ ~LoopCond(wi) /\ ValidParams(wreq.params)
       /\ wreq.imageData.height > 0 /\ wreq.imageData.width > 0)
      => \A px \in DOMAIN writes :
            \E src \in 0..(wreq.imageData.height * wreq.imageData.width - 1) :
               \A c \in 0..3 :
                  result[px * 4 + c] = wreq.imageData.data[src * 4 + c]

(* C18 *)
\* C18: a handler invoked with any h_proj >= 0 and w_proj >= 0 runs to its
\* end; it has then posted exactly ten 'progress' messages followed by one
\* 'done' message; and while it runs no other request is taken, a request
\* posted meanwhile waits, and every message posted is one of its own.
C18_RunsToCompletion ==
    /\ [](wpc = "loop" => <>(wpc = "idle"))
    /\ [][ (wpc = "loop" /\ wpc' = "idle")
             => /\ Len(outbox') = 11
                /\ \A i \in 1..10 : outbox'[i].type = "progress"
                /\ outbox'[11].type = "done"
                /\ DOMAIN outbox'[11].result =
                      0..(wreq.params.w_proj * wreq.params.h_proj * 4 - 1) ]_vars
    /\ [][ wpc = "loop"
             => /\ wreq' = wreq \/ wpc' = "idle"
                /\ Len(inbox') >= Len(inbox)
                /\ outbox' # outbox =>
                      \/ outbox' = Append(outbox,
                            [ type |-> "progress",
                              value |-> RDiv(Num(endY(wi, wreq.params.h_proj)),
                                             Num(wreq.params.h_proj)) ])
                      \/ outbox' = Append(outbox,
                            [ type |-> "done", result |-> result ]) ]_vars

\* a handler has finished while another request was waiting
C18_Witness ==
    /\ wpc = "idle"
    /\ inbox = << Waiting >>
    /\ Len(outbox) = 11
    /\ outbox[11].type = "done"
    /\ DOMAIN outbox[11].result = 0..(7 * 4 - 1)

----------------------------------------------------------------------------
(* Properties of the worker-based page, checked under SpecPage *)

\* requests posted whose 'done' message the page has not received yet
Outstanding ==
    Len(inbox) + (IF wpc = "loop" THEN 1 ELSE 0)
               + Cardinality({ i \in DOMAIN outbox : outbox[i].type = "done" })

\* C3: under every interleaving of input events, image loads, throttle
\* timeouts, animation frames and worker messages, at most one render request
\* is outstanding at the worker, and it is outstanding only while isProcessing
\* is set, so no second evaluation runs and writes while one is in flight
C3_AtMostOneOutstanding ==
    /\ Outstanding <= 1
    /\ Outstanding = 1 => pIsProcessing

\* C3: a request is outstanding and a call of updateProjection() has just
\* passed the throttle, long enough after the last request, with image data
\* cached: isProcessing alone has turned it away
C3_Witness ==
    /\ Outstanding = 1
    /\ pIsProcessing
    /\ pCached # NoData
    /\ pTimer = FrameInterval
    /\ pSince = FrameInterval

\* nothing is pending: no message, timeout, animation frame, load or evaluation
Quiet ==
    /\ inbox = <<>>
    /\ outbox = <<>>
    /\ wpc = "idle"
    /\ ~pIsProcessing
    /\ pTimer = NoTimer
    /\ pRaf = 0
    /\ pLoads = {}
    /\ pReaders = {}

\* C4 (as claimed): once input events have stopped and the worker has
\* answered, the frame on the canvas was rendered from the values the range
\* inputs had at the last call of updateProjection()
C4_LastRequestShown == (Quiet /\ pPosted # NoCtl) => pShown = pCtl

----------------------------------------------------------------------------
(* Properties of the WebGL page, checked under SpecGL *)

\* C9 (as claimed): a render pass that throws, which updateProjection reports
\* with console.error, leaves the frame on the canvas as it was
C9_FailedPassKeepsFrame == [][gErrors' # gErrors => gFrame' = gFrame]_vars

(* C11 *)
\* C11: over any sequence of render calls, gl.texImage2D has uploaded at most
\* one texture for each source-image key; a render of an image whose key is
\* cached creates and uploads nothing; and only destroy takes an entry out of
\* the texture cache, while only loadTexture puts one in.
RenderStep == gRaf # <<>> /\ Head(gRaf).kind = "update" /\ gRaf' = Tail(gRaf)
                /\ gComplete /\ ~gIsProcessing

C12_DestroyReleasesAll ==
    gUnloaded =>
        /\ \A k \in Keys : gTextures[k] = 0
        /\ gCache = {}
        /\ ~gBuffers
        /\ ~gProgram

----------------------------------------------------------------------------
(* Properties of the projection math, checked under SpecMath *)

Applied(op) == calc.op = op /\ calc.done

C14_UniformColourPreserved ==
    Applied("fragment") =>
        /\ calc.out.color # Discard =>
              calc.out.color = V4Div(OuterLoop(calc.in.imgCoord, calc.in.tex,
                                               calc.in.uResolution, 8), 64)
        /\ (Uniform(calc.in.tex) /\ calc.out.color # Discard) =>
              calc.out.color = calc.in.tex[1]

\* a fragment of a one-colour texture two texels wide has been coloured
C14_Witness ==
    /\ Applied("fragment")
    /\ Len(calc.in.tex) = 2
    /\ Uniform(calc.in.tex)
    /\ calc.in.imgCoord = << Half, Num(1) >>
    /\ calc.out.color = Colour(10, 128, 77, 200)

(* C15 *)
\* C15 (as claimed): for the same angles and the same sphere point the
\* shader and the worker compute the same rotated point, the matrix applied
\* as M . P with M read row by row.
C15_SameRotatedPoint ==
    Applied("rotate") => calc.out.fragment = calc.out.raster

(* C16 *)
\* C16 (as claimed): the worker and the shader compute the same plane point
\* x = row + (offsetVer - 0.5) * outputHeight,
\* y = col + (offsetHor - 0.5) * outputWidth, z = 0.
C16_SamePlanePoint ==
    Applied("plane") =>
        LET in == calc.in
            claimed == << RAdd(Num(in.row), RMul(RSub(in.offset_ver, Half), Num(in.h))),
                          RAdd(Num(in.col), RMul(RSub(in.offset_hor, Half), Num(in.w))),
                          Num(0) >>
        IN  calc.out.raster = claimed /\ calc.out.fragment = claimed

(* C19 *)
\* C19: for integer x, y and r > 0 the divisor x^2 + y^2 + r^2 is positive
\* and the point P = (k x, k y, (k - 1) r) lies on the sphere of radius r, so
\* that -r <= P.z <= r, in the worker and in the shader; for r = 0 and
\* x = y = 0 the divisor is 0.
OnSphere(P, r) ==
    /\ RAdd(RAdd(RMul(P[1], P[1]), RMul(P[2], P[2])), RMul(P[3], P[3])) = Num(r * r)
    /\ RLeq(Num(0 - r), P[3])
    /\ RLeq(P[3], Num(r))

C19_PointOnSphere ==
    Applied("sphere") =>
        /\ calc.in.r > 0 =>
              /\ RLess(Num(0), calc.out.rasterDen)
              /\ RLess(Num(0), calc.out.fragmentDen)
              /\ OnSphere(calc.out.raster, calc.in.r)
              /\ OnSphere(calc.out.fragment, calc.in.r)
        /\ (calc.in.r = 0 /\ calc.in.x = 0 /\ calc.in.y = 0) =>
              /\ calc.out.rasterDen = Num(0)
              /\ calc.out.fragmentDen = Num(0)

\* a plane point inside the circle of radius r, off the axes, has been
\* projected to the lower half of the sphere
C19_Witness ==
    /\ Applied("sphere")
    /\ calc.in.r = 2 /\ calc.in.x = 1 /\ calc.in.y = 0 - 1
    /\ calc.out.rasterDen = Num(6)
    /\ calc.out.raster = << <<4, 3>>, <<0 - 4, 3>>, <<2, 3>> >>

(* C20 *)
\* C20: the rotation matrix M of the worker is orthonormal, M . M^T = I, and
\* rotating a point by M and then by the inverse rotation M^T gives the point
\* back, for angles that are multiples of 90 degrees and integer points.
Transpose(m) == [ i \in 1..3 |-> [ j \in 1..3 |-> m[j][i] ] ]
Product(m, n) ==
    [ i \in 1..3 |-> [ j \in 1..3 |->
        m[i][1] * n[1][j] + m[i][2] * n[2][j] + m[i][3] * n[3][j] ] ]
Identity == << <<1, 0, 0>>, <<0, 1, 0>>, <<0, 0, 1>> >>

C20_RotationOrthonormal ==
    Applied("rotate") =>
        LET M == rot_mat(calc.in.alpha, calc.in.beta, calc.in.gamma)
        IN  /\ Product(M, Transpose(M)) = Identity
            /\ calc.out.raster = axisRotate(calc.in.P, M)
            /\ axisRotate(calc.out.raster, Transpose(M)) = calc.in.P

\* a point off the axes has been turned about all three axes
C20_Witness ==
    /\ Applied("rotate")
    /\ calc.in.alpha = 1 /\ calc.in.beta = 3 /\ calc.in.gamma = 2
    /\ calc.in.P = << Num(1), Num(2), Num(0 - 1) >>
    /\ calc.out.raster # calc.in.P

(* C21 *)
\* the pixel buffer of a message has four bytes for each pixel of the width
\* and height the message carries
ConsistentFrame(m) ==
    Cardinality(DOMAIN m.imageData.data)
        = m.imageData.width * m.imageData.height * 4

\* C21: every render request posted to the worker of the 2D page carries a
\* pixel buffer, a width and a height of one loaded image: data.length =
\* width * height * 4, whatever the order of the FileReader, image-load and
\* input events.
C21_PostedFrameConsistent ==
    \A i \in 1..Len(inbox) : ConsistentFrame(inbox[i])

(* C22 *)
\* the updateProjection callbacks in the animation-frame queue
PendingUpdates == { i \in 1..Len(gRaf) : gRaf[i].kind = "update" }

\* C22: in the WebGL page, whatever slider, key, touch, resize and image-load
\* events have come, once the current image has loaded a render pass runs
\* after the last event, with the range inputs as they are then (no requested
\* update is lost), and at most one updateProjection animation-frame
\* callback is pending at any time.
C22_NoUpdateLost ==
    /\ []((gRaf = <<>> /\ gComplete) => ~gDirty)
    /\ []((~gDirty /\ gFrame # Blank)
             => gFrame = [ image |-> gImg, ctl |-> gCtl ])
    /\ <>[][Callback]_vars => <>[](gComplete => ~gDirty)
    /\ [](Cardinality(PendingUpdates) <= 1)

\* an uploaded image has been rendered with moved range inputs and nothing
\* is pending
C22_Witness ==
    /\ gRaf = <<>>
    /\ gComplete
    /\ ~gDirty
    /\ gImg # 0
    /\ gCtl # 0
    /\ gFrame = [ image |-> gImg, ctl |-> gCtl ]

InUnit(a) == RLeq(Num(0), a) /\ RLeq(a, Num(1))

\* C24: for every fragment and every set of uniforms with uRadius > 0, both
\* components of the texture coordinate that getPixOnImg of the fragment
\* shader returns lie in [0, 1], so main never takes its discard branch.
C24_TexCoordInUnitSquare ==
    Applied("texcoord")
        => /\ InUnit(calc.out.imgCoord[1])
           /\ InUnit(calc.out.imgCoord[2])
           /\ ~Discarded(calc.out.imgCoord)


============================================================================
